---- MODULE Spec2Model ----
(***************************************************************************)
(* One run of aws-s3-cli.ts: the module body (dotenv loading, the          *)
(* --env-file scan, the yargs command table) followed by the one handler   *)
(* yargs dispatches to and the continuation of that handler after its      *)
(* awaited client.send.                                                    *)
(*                                                                         *)
(* Strings are sequences of characters.  "/" is the path separator; any    *)
(* other element stands for a run of characters without a separator.       *)
(***************************************************************************)
EXTENDS Integers, Sequences, FiniteSets, TLC

\* ------------------------------------------------------------------ bounds
MaxPathLen == 3       \* longest --file path / object --key that is split
MaxOverrideLen == 1   \* longest explicit --key (upload) / --output value
MaxBytesNear == 8     \* object sizes explored: 0..n and within n of 1024^e

\* ------------------------------------------------------------- JS values
Undefined == <<"<undefined>">>
Null == <<"<null>">>
EmptyString == <<>>
Unset == <<"<unset>">>

\* JavaScript truthiness of a string-or-undefined value (`x || y`, `!x`).
Falsy(s) == s \in {Undefined, Null, EmptyString}

PathChars == {"/", "a"}
Strings(n) == UNION {[1..len -> PathChars] : len \in 0..n}
Paths == Strings(MaxPathLen)
Overrides == Strings(MaxOverrideLen)

US_EAST_1 == <<"us-east-1">>
EU_WEST_1 == <<"eu-west-1">>
Regions == {US_EAST_1, EU_WEST_1}
BucketName == <<"my-bucket">>
SomePrefix == <<"images", "/">>

\* ------------------------------------------------------- pure functions
\* path.basename (POSIX): scan from the end, skip trailing separators, stop
\* at the separator before the last component.  ScanBasename returns
\* <<start, end>> of path.slice(start, end), with end = 0 for "no component".
RECURSIVE ScanBasename(_, _, _)
ScanBasename(path, i, end) ==
  IF i = 0 THEN <<0, end>>
  ELSE IF path[i] = "/"
    THEN IF end # 0 THEN <<i, end>> ELSE ScanBasename(path, i - 1, end)
    ELSE ScanBasename(path, i - 1, IF end = 0 THEN i ELSE end)

basename(path) ==
  LET se == ScanBasename(path, Len(path), 0)
  IN  IF se[2] = 0 THEN EmptyString ELSE SubSeq(path, se[1] + 1, se[2])

k == 1024
decimals == 2
sizes == <<"Bytes", "KB", "MB", "GB", "TB", "PB", "EB", "ZB", "YB">>

RECURSIVE Pow(_, _)
Pow(b, e) == IF e = 0 THEN 1 ELSE b * Pow(b, e - 1)

\* Math.floor(Math.log(bytes) / Math.log(k)) for bytes >= 1.
RECURSIVE FloorLog(_, _)
FloorLog(bytes, base) ==
  IF bytes < base THEN 0 ELSE 1 + FloorLog(bytes \div base, base)

\* (bytes / divisor).toFixed(dm), as a count of 10^-dm units: the nearest
\* one, the larger of the two on a tie.
ToFixed(bytes, divisor, dm) ==
  (2 * Pow(10, dm) * bytes + divisor) \div (2 * divisor)

\* formatBytes(bytes): the number printed (in hundredths) and the unit.
formatBytes(bytes) ==
  IF bytes = 0 THEN [hundredths |-> 0, unit |-> "Bytes"]
  ELSE LET dm == IF decimals < 0 THEN 0 ELSE decimals
           i == FloorLog(bytes, k)
       IN  [hundredths |-> ToFixed(bytes, Pow(k, i), dm),
            unit |-> IF i + 1 \in DOMAIN sizes THEN sizes[i + 1]
                     ELSE "undefined"]

\* Object sizes explored: small ones, those around the KB and MB boundaries
\* (the arithmetic of larger ones leaves the 32-bit integers), and one that
\* lies exactly between two printed values (1.125 KB).
ByteInputs ==
  (0..MaxBytesNear)
    \cup {Pow(k, e) + d : e \in 1..2, d \in (0 - MaxBytesNear)..MaxBytesNear}
    \cup {k + k \div 8}

\* --------------------------------------------------------- command table
Commands == {"list-buckets", "get-bucket-region", "create-bucket",
             "delete-bucket", "list-files", "upload-file", "download-file",
             "delete-file"}
UnknownCommand == "frobnicate"
NoCommand == "<none>"

\* The options a command declares with demandOption: true.
Required(cmd) ==
  CASE cmd = "list-buckets" -> {}
    [] cmd = "get-bucket-region" -> {"name"}
    [] cmd = "create-bucket" -> {"name"}
    [] cmd = "delete-bucket" -> {"name"}
    [] cmd = "list-files" -> {"bucket"}
    [] cmd = "upload-file" -> {"bucket", "file"}
    [] cmd = "download-file" -> {"bucket", "key"}
    [] cmd = "delete-file" -> {"bucket", "key"}
    [] OTHER -> {}

\* The options a command declares without demandOption.
Optional(cmd) ==
  CASE cmd = "list-files" -> {"prefix"}
    [] cmd = "upload-file" -> {"key"}
    [] cmd = "download-file" -> {"output"}
    [] OTHER -> {}

OptionNames == {"name", "bucket", "prefix", "file", "key", "output"}

\* The values explored for an option that is present on the command line.
OptionValues(cmd, o) ==
  CASE o \in {"name", "bucket"} -> {BucketName}
    [] o = "prefix" -> {EmptyString, SomePrefix}
    [] o = "file" -> Paths
    [] o = "key" -> IF cmd = "upload-file" THEN Overrides ELSE Paths
    [] o = "output" -> Overrides

\* An option a command declares is present with some value or absent; an
\* option it does not declare is left off the command line.
OptionDomain(cmd, o) ==
  IF o \in Required(cmd) \cup Optional(cmd)
    THEN OptionValues(cmd, o) \cup {Undefined}
    ELSE {Undefined}

\* Command lines after hideBin: a command token (or an unknown one, or
\* none), the global flags, and the options of the command.
CommandLines ==
  UNION {
    { [cmd |-> c, help |-> h, version |-> v, region |-> r,
       name |-> n, bucket |-> b, prefix |-> p, file |-> f, key |-> ky,
       output |-> out] :
        h \in BOOLEAN, v \in BOOLEAN, r \in Regions \cup {Undefined},
        n \in OptionDomain(c, "name"), b \in OptionDomain(c, "bucket"),
        p \in OptionDomain(c, "prefix"), f \in OptionDomain(c, "file"),
        ky \in OptionDomain(c, "key"), out \in OptionDomain(c, "output") }
    : c \in Commands \cup {UnknownCommand, NoCommand} }

NotParsed ==
  [cmd |-> NoCommand, help |-> FALSE, version |-> FALSE, region |-> Undefined,
   name |-> Undefined, bucket |-> Undefined, prefix |-> Undefined,
   file |-> Undefined, key |-> Undefined, output |-> Undefined]

\* yargs applies the declared default of --region (default: "us-east-1").
ApplyDefaults(c) ==
  [c EXCEPT !.region = IF @ = Undefined THEN US_EAST_1 ELSE @]

\* Faulty variant of DemandOptionOk: one required option on the command line
\* is taken to be enough.
DemandOptionAny(c) ==
  Required(c.cmd) = {} \/ \E o \in Required(c.cmd) : c[o] # Undefined

\* demandOption: every required option of the command is on the command line.
DemandOptionOk(c) == \A o \in Required(c.cmd) : c[o] # Undefined

\* ------------------------------------------------------------ environment
\* dotenv.config without `override`: a variable the file defines is written
\* to process.env only when process.env does not hold it yet.
DotenvConfig(current, fileValue) ==
  IF current = Unset THEN fileValue ELSE current

\* The raw-argument scan for --env-file: the flag is absent, is the last
\* argument (no path follows), or is followed by a path.
EnvFileArgs == {"absent", "last", "path"}

\* What the one credential variable holds in the inherited environment, in
\* ./.env and in the --env-file file (Unset: not defined there).
Worlds ==
  { [inherited |-> i, defaultFile |-> d, envFileArg |-> a, envFile |-> e] :
      i \in {Unset, <<"inherited">>}, d \in {Unset, <<"default">>},
      a \in EnvFileArgs, e \in {Unset, <<"custom">>} }

\* ------------------------------------------------------------------ state
VARIABLES
  world,        \* the environment the process starts in (never changes)
  env,          \* process.env: the credential variable
  pc,           \* position of the run
  cmdline,      \* the command line as typed (after hideBin)
  argv,         \* the parsed command line, defaults applied
  handler,      \* the handler yargs has called, or NoCommand
  entered,      \* how many handlers have been called
  phase,        \* the handler's phase
  client,       \* region the S3 client is bound to, or Undefined
  request,      \* parameters of the command given to client.send
  sends,        \* how many times client.send was called
  credentials,  \* what fromEnv resolved when the request was signed
  response,     \* what client.send resolved or rejected with
  localFile,    \* the download's local output file
  outputPath,   \* the path the download is written to
  report,       \* the value the success message reports
  stdout,       \* console.log lines, by kind
  stderr,       \* console.error lines, by kind
  exitCode      \* the process exit code once pc = "exited"

vars == <<world, env, pc, cmdline, argv, handler, entered, phase, client, request,
          sends, credentials, response, localFile, outputPath, report,
          stdout, stderr, exitCode>>

NoRequest ==
  [op |-> "none", Bucket |-> Undefined, Key |-> Undefined,
   Prefix |-> Undefined, LocationConstraint |-> Undefined]

NoResponse ==
  [ok |-> FALSE, LocationConstraint |-> Undefined, count |-> 0, Size |-> 0,
   Body |-> FALSE]

NoReport == [region |-> Undefined, hundredths |-> 0, unit |-> "none"]

Init ==
  /\ world \in { w \in Worlds : w.envFileArg # "path" => w.envFile = Unset }
  /\ env = world.inherited
  /\ pc = "dotenv"
  /\ cmdline = NotParsed
  /\ argv = NotParsed
  /\ handler = NoCommand
  /\ entered = 0
  /\ phase = "NONE"
  /\ client = Undefined
  /\ request = NoRequest
  /\ sends = 0
  /\ credentials = Unset
  /\ response = NoResponse
  /\ localFile = "untouched"
  /\ outputPath = Undefined
  /\ report = NoReport
  /\ stdout = <<>>
  /\ stderr = <<>>
  /\ exitCode = 0

\* ----------------------------------------------------------- module body
\* dotenv.config(): load ./.env.
LoadDefaultEnv ==
  /\ pc = "dotenv"
  /\ env' = DotenvConfig(env, world.defaultFile)
  /\ pc' = "envfile"
  /\ UNCHANGED <<world, cmdline, argv, handler, entered, phase, client, request, sends,
                 credentials, response, localFile, outputPath, report, stdout,
                 stderr, exitCode>>

\* if (process.argv.includes("--env-file")) ... dotenv.config({ path }).
LoadEnvFile ==
  /\ pc = "envfile"
  /\ IF world.envFileArg = "path"
       THEN /\ env' = DotenvConfig(env, world.envFile)
            /\ stdout' = Append(stdout, "Loaded environment from")
       ELSE UNCHANGED <<env, stdout>>
  /\ pc' = "yargs"
  /\ UNCHANGED <<world, cmdline, argv, handler, entered, phase, client, request, sends,
                 credentials, response, localFile, outputPath, report, stderr,
                 exitCode>>

\* process.exit(code)
Exit(code) == pc' = "exited" /\ exitCode' = code

\* yargs(hideBin(process.argv))...argv: --help / --version print and exit 0
\* before any validation; demandCommand(1) fails without a positional
\* argument; a known command is validated against its demandOption set and
\* its handler called; a positional that is no command satisfies
\* demandCommand and, strict mode not being on, is accepted with no handler.
YargsParse ==
  /\ pc = "yargs"
  /\ \E c \in CommandLines :
       /\ cmdline' = c
       /\ argv' = ApplyDefaults(c)
       /\ IF c.help \/ c.version
            THEN /\ stdout' = Append(stdout, IF c.help THEN "help" ELSE "version")
                 /\ Exit(0)
                 /\ UNCHANGED <<handler, entered, phase, stderr>>
          ELSE IF c.cmd = NoCommand
            THEN /\ stderr' = Append(stderr, "You need to specify a command")
                 /\ Exit(1)
                 /\ UNCHANGED <<handler, entered, phase, stdout>>
          ELSE IF c.cmd \notin Commands
            THEN /\ pc' = "returned"
                 /\ UNCHANGED <<handler, entered, phase, stdout, stderr, exitCode>>
          ELSE IF ~DemandOptionOk(c)
            THEN /\ stderr' = Append(stderr, "Missing required argument")
                 /\ Exit(1)
                 /\ UNCHANGED <<handler, entered, phase, stdout>>
          ELSE /\ handler' = c.cmd
               /\ entered' = entered + 1
               /\ phase' = "VALIDATED"
               /\ pc' = "entered"
               /\ UNCHANGED <<stdout, stderr, exitCode>>
  /\ UNCHANGED <<world, env, client, request, sends, credentials, response,
                 localFile, outputPath, report>>

\* -------------------------------------------------------- handler steps
\* getS3Client(region): the client is bound to the region it is given.
getS3Client(region) == region

\* Faulty variant of GetBucketRegionClient: the client follows --region.
GetBucketRegionClientFromArgv(a) == a.region

\* getBucketRegion builds its own client: new S3Client({region: "us-east-1"}).
GetBucketRegionClient(a) == US_EAST_1

\* Client construction, the first statements of a handler's try block.
BindClient(h, region, logs) ==
  /\ pc = "entered" /\ handler = h
  /\ client' = region
  /\ stdout' = stdout \o logs
  /\ phase' = "CLIENT_BOUND"
  /\ pc' = "bound"
  /\ UNCHANGED <<world, env, cmdline, argv, handler, entered, request, sends,
                 credentials, response, localFile, outputPath, report, stderr,
                 exitCode>>

\* client.send(command): the request leaves, signed with what fromEnv()
\* reads from process.env at that moment.
SendCommand(h, from, req) ==
  /\ pc = from /\ handler = h
  /\ request' = req
  /\ sends' = sends + 1
  /\ credentials' = env
  /\ phase' = "CALLING"
  /\ pc' = "awaiting"
  /\ UNCHANGED <<world, env, cmdline, argv, handler, entered, client, response,
                 localFile, outputPath, report, stderr, exitCode>>

\* Faulty variant of Catch: the error is reported and the handler returns
\* without process.exit(1).
CatchWithoutExit(msg) ==
  /\ stderr' = Append(stderr, msg)
  /\ phase' = "FAILED"
  /\ pc' = "returned"
  /\ UNCHANGED exitCode

\* catch (error) { console.error(msg, error); process.exit(1); }
Catch(msg) ==
  /\ stderr' = Append(stderr, msg)
  /\ phase' = "FAILED"
  /\ Exit(1)

\* Faulty variant of Rejected: a rejected send is issued again (up to three
\* sends in all).
RejectedRetries(h, msg) ==
  /\ pc = "awaiting" /\ handler = h
  /\ sends < 3
  /\ sends' = sends + 1
  /\ UNCHANGED <<world, env, pc, cmdline, argv, handler, entered, phase, client,
                 request, credentials, response, localFile, outputPath, report,
                 stdout, stderr, exitCode>>

\* The awaited send rejects (without credentials it always does).
Rejected(h, msg) ==
  /\ pc = "awaiting" /\ handler = h
  /\ response' = NoResponse
  /\ Catch(msg)
  /\ UNCHANGED <<world, env, cmdline, argv, handler, entered, client, request,
                 sends, credentials, localFile, outputPath, report, stdout>>

\* The awaited send resolves with r and the handler prints its result.
Resolved(h, r, lines, rep) ==
  /\ pc = "awaiting" /\ handler = h
  /\ credentials # Unset
  /\ response' = r
  /\ stdout' = stdout \o lines
  /\ report' = rep
  /\ phase' = "SUCCEEDED"
  /\ pc' = "returned"
  /\ UNCHANGED <<world, env, cmdline, argv, handler, entered, client, request,
                 sends, credentials, localFile, outputPath, stderr, exitCode>>

Ok == [NoResponse EXCEPT !.ok = TRUE]

\* ---------------------------------------------------------------- handlers
listBuckets ==
  \/ BindClient("list-buckets", getS3Client(argv.region),
                <<"Using region parameter", "Creating S3 client with region">>)
  \/ /\ stdout' = Append(stdout, "Sending ListBucketsCommand...")
     /\ SendCommand("list-buckets", "bound",
                    [NoRequest EXCEPT !.op = "ListBuckets"])
  \/ \E n \in 0..1 :
       Resolved("list-buckets", [Ok EXCEPT !.count = n],
                <<"NOTE", "Listing all buckets">>
                  \o (IF n > 0 THEN <<"bucket line">> ELSE <<"No buckets found.">>),
                report)
  \/ Rejected("list-buckets", "Error listing buckets:")

\* Empty string or null means us-east-1.
ReportedRegion(location) == IF Falsy(location) THEN US_EAST_1 ELSE location

getBucketRegion ==
  \/ BindClient("get-bucket-region", GetBucketRegionClient(argv), <<>>)
  \/ /\ stdout' = Append(stdout, "Checking region for bucket")
     /\ SendCommand("get-bucket-region", "bound",
                    [NoRequest EXCEPT !.op = "GetBucketLocation",
                                      !.Bucket = argv.name])
  \/ \E loc \in {Undefined, Null, EmptyString} \cup Regions :
       Resolved("get-bucket-region", [Ok EXCEPT !.LocationConstraint = loc],
                <<"Bucket is in region">>,
                [report EXCEPT !.region = ReportedRegion(loc)])
  \/ Rejected("get-bucket-region", "Error getting region for bucket")

\* Faulty variant of CreateBucketRequest: the location constraint is always
\* the requested region.
CreateBucketRequestAlwaysConstrained(a) ==
  [NoRequest EXCEPT !.op = "CreateBucket", !.Bucket = a.name,
     !.LocationConstraint = a.region]

CreateBucketRequest(a) ==
  [NoRequest EXCEPT !.op = "CreateBucket", !.Bucket = a.name,
     !.LocationConstraint = IF a.region # US_EAST_1 THEN a.region ELSE Undefined]

createBucket ==
  \/ BindClient("create-bucket", getS3Client(argv.region),
                <<"Creating S3 client with region">>)
  \/ /\ UNCHANGED stdout
     /\ SendCommand("create-bucket", "bound", CreateBucketRequest(argv))
  \/ Resolved("create-bucket", Ok, <<"Bucket created successfully">>, report)
  \/ Rejected("create-bucket", "Error creating bucket:")

deleteBucket ==
  \/ BindClient("delete-bucket", getS3Client(argv.region),
                <<"Creating S3 client with region">>)
  \/ /\ UNCHANGED stdout
     /\ SendCommand("delete-bucket", "bound",
                    [NoRequest EXCEPT !.op = "DeleteBucket", !.Bucket = argv.name])
  \/ Resolved("delete-bucket", Ok, <<"Bucket deleted successfully">>, report)
  \/ Rejected("delete-bucket", "Error deleting bucket:")

listFiles ==
  \/ BindClient("list-files", getS3Client(argv.region),
                <<"Creating S3 client with region">>)
  \/ /\ UNCHANGED stdout
     /\ SendCommand("list-files", "bound",
                    [NoRequest EXCEPT !.op = "ListObjectsV2",
                                      !.Bucket = argv.bucket,
                                      !.Prefix = argv.prefix])
  \/ Resolved("list-files", Ok, <<"Contents of bucket", "No objects found.">>,
              report)
  \/ \E size \in ByteInputs :
       Resolved("list-files", [Ok EXCEPT !.count = 1, !.Size = size],
                <<"Contents of bucket", "object line">>,
                [report EXCEPT !.hundredths = formatBytes(size).hundredths,
                                !.unit = formatBytes(size).unit])
  \/ Rejected("list-files", "Error listing objects:")

\* Faulty variant of UploadKey: the whole --file path is the default key.
UploadKeyFullPath(a) == IF ~Falsy(a.key) THEN a.key ELSE a.file

\* const key = argv.key || path.basename(filePath)
UploadKey(a) == IF ~Falsy(a.key) THEN a.key ELSE basename(a.file)

uploadFile ==
  \/ BindClient("upload-file", getS3Client(argv.region),
                <<"Creating S3 client with region">>)
  \* readFileSync(filePath) returns the content ...
  \/ /\ pc = "bound" /\ handler = "upload-file"
     /\ pc' = "read"
     /\ UNCHANGED <<world, env, cmdline, argv, handler, entered, phase, client,
                    request, sends, credentials, response, localFile,
                    outputPath, report, stdout, stderr, exitCode>>
  \* ... or throws, which the catch block reports.
  \/ /\ pc = "bound" /\ handler = "upload-file"
     /\ Catch("Error uploading file:")
     /\ UNCHANGED <<world, env, cmdline, argv, handler, entered, client,
                    request, sends, credentials, response, localFile,
                    outputPath, report, stdout>>
  \/ /\ UNCHANGED stdout
     /\ SendCommand("upload-file", "read",
                    [NoRequest EXCEPT !.op = "PutObject", !.Bucket = argv.bucket,
                                      !.Key = UploadKey(argv)])
  \/ Resolved("upload-file", Ok, <<"File uploaded successfully">>, report)
  \/ Rejected("upload-file", "Error uploading file:")

\* const outputPath = argv.output || path.basename(argv.key)
DownloadOutputPath(a) == IF ~Falsy(a.output) THEN a.output ELSE basename(a.key)

\* Faulty variant of DownloadResolved: the output file is opened before the
\* body is looked at.
DownloadResolvedOpensFirst(body) ==
  /\ pc = "awaiting" /\ handler = "download-file"
  /\ credentials # Unset
  /\ response' = [Ok EXCEPT !.Body = body]
  /\ outputPath' = IF ~Falsy(argv.output) THEN argv.output ELSE basename(argv.key)
  /\ localFile' = "open"
  /\ IF body
       THEN /\ pc' = "piping"
            /\ UNCHANGED <<phase, stderr, exitCode>>
       ELSE Catch("Error downloading file:")
  /\ UNCHANGED <<world, env, cmdline, argv, handler, entered, client, request,
                 sends, credentials, report, stdout>>

\* What downloadFile does with a resolved response: without a body it
\* throws; with one it opens the output file and starts the pipeline.
DownloadResolved(body) ==
  /\ pc = "awaiting" /\ handler = "download-file"
  /\ credentials # Unset
  /\ response' = [Ok EXCEPT !.Body = body]
  /\ IF body
       THEN /\ outputPath' = DownloadOutputPath(argv)
            /\ localFile' = "open"
            /\ pc' = "piping"
            /\ UNCHANGED <<phase, stderr, exitCode>>
       ELSE /\ Catch("Error downloading file:")
            /\ UNCHANGED <<outputPath, localFile>>
  /\ UNCHANGED <<world, env, cmdline, argv, handler, entered, client, request,
                 sends, credentials, report, stdout>>

downloadFile ==
  \/ BindClient("download-file", getS3Client(argv.region),
                <<"Creating S3 client with region">>)
  \/ /\ UNCHANGED stdout
     /\ SendCommand("download-file", "bound",
                    [NoRequest EXCEPT !.op = "GetObject", !.Bucket = argv.bucket,
                                      !.Key = argv.key])
  \/ \E body \in BOOLEAN : DownloadResolved(body)
  \/ Rejected("download-file", "Error downloading file:")
  \* await pipeline(response.Body, writeStream) completes ...
  \/ /\ pc = "piping" /\ handler = "download-file"
     /\ localFile' = "complete"
     /\ stdout' = Append(stdout, "File downloaded successfully")
     /\ phase' = "SUCCEEDED"
     /\ pc' = "returned"
     /\ UNCHANGED <<world, env, cmdline, argv, handler, entered, client,
                    request, sends, credentials, response, outputPath, report,
                    stderr, exitCode>>
  \* ... or a stream fails part-way.
  \/ /\ pc = "piping" /\ handler = "download-file"
     /\ localFile' = "partial"
     /\ Catch("Error downloading file:")
     /\ UNCHANGED <<world, env, cmdline, argv, handler, entered, client,
                    request, sends, credentials, response, outputPath, report,
                    stdout>>

deleteFile ==
  \/ BindClient("delete-file", getS3Client(argv.region),
                <<"Creating S3 client with region">>)
  \/ /\ UNCHANGED stdout
     /\ SendCommand("delete-file", "bound",
                    [NoRequest EXCEPT !.op = "DeleteObject",
                                      !.Bucket = argv.bucket, !.Key = argv.key])
  \/ Resolved("delete-file", Ok, <<"File deleted successfully">>, report)
  \/ Rejected("delete-file", "Error deleting file:")

\* Nothing is pending any more: the process ends with its exit code, 0.
ProcessEnd ==
  /\ pc = "returned"
  /\ pc' = "exited"
  /\ UNCHANGED <<world, env, cmdline, argv, handler, entered, phase, client,
                 request, sends, credentials, response, localFile, outputPath,
                 report, stdout, stderr, exitCode>>

Next ==
  \/ LoadDefaultEnv
  \/ LoadEnvFile
  \/ YargsParse
  \/ listBuckets
  \/ getBucketRegion
  \/ createBucket
  \/ deleteBucket
  \/ listFiles
  \/ uploadFile
  \/ downloadFile
  \/ deleteFile
  \/ ProcessEnd

Spec == Init /\ [][Next]_vars

\* ------------------------------------------------------------ properties
Printed(line) == \E i \in DOMAIN stdout : stdout[i] = line

SuccessLines ==
  {"bucket line", "No buckets found.", "Bucket is in region",
   "Bucket created successfully", "Bucket deleted successfully",
   "No objects found.", "object line", "File uploaded successfully",
   "File downloaded successfully", "File deleted successfully"}

Parsed == pc \notin {"dotenv", "envfile", "yargs"}

\* Some option the command demands is not on the command line.
MissingRequired(c) == \E o \in Required(c.cmd) : c[o] = Undefined

AsksHelp(c) == c.help \/ c.version

\* C1 (as amended): a command line that names one of the seven commands with
\* required options and leaves one of them out never enters a handler and
\* never issues a send; it has exited right after parsing, with code 1 and a
\* usage error unless --help or --version was given, with code 0 if it was.
C1_MissingOptionNoHandler ==
  (cmdline.cmd \in Commands /\ MissingRequired(cmdline)) =>
    /\ pc = "exited"
    /\ handler = NoCommand /\ entered = 0 /\ phase = "NONE"
    /\ client = Undefined /\ sends = 0 /\ request = NoRequest
    /\ IF AsksHelp(cmdline)
         THEN exitCode = 0 /\ stderr = <<>>
         ELSE exitCode = 1 /\ stderr = <<"Missing required argument">>

C1_Witness ==
  /\ cmdline.cmd = "upload-file"
  /\ cmdline.bucket # Undefined /\ cmdline.file = Undefined
  /\ ~AsksHelp(cmdline)
  /\ pc = "exited" /\ exitCode = 1 /\ sends = 0 /\ entered = 0

\* C1 as stated: every such command line ends with exit code 1.
C1_Original ==
  (pc = "exited" /\ cmdline.cmd \in Commands /\ MissingRequired(cmdline)) =>
    exitCode = 1 /\ entered = 0 /\ sends = 0

\* C2: a command line without --help / --version whose command token is
\* missing or is none of the eight commands ends with a usage error and
\* exit code 1, no handler entered and no send issued.
C2_UnknownCommandExits1 ==
  (pc = "exited" /\ cmdline.cmd \notin Commands /\ ~AsksHelp(cmdline)) =>
    /\ exitCode = 1 /\ stderr # <<>>
    /\ entered = 0 /\ sends = 0

\* C3 (as amended): at most one handler is entered and at most one send is
\* issued in a run, a send only by an entered handler; once the command
\* line is parsed, a handler has been entered exactly when the command is
\* one of the eight, none of its required options is missing and neither
\* --help nor --version was given.
C3_AtMostOneHandlerOneSend ==
  /\ entered \in {0, 1}
  /\ sends \in {0, 1}
  /\ sends <= entered
  /\ entered = 1 <=> handler \in Commands
  /\ Parsed =>
       (entered = 1 <=>
          /\ cmdline.cmd \in Commands
          /\ ~MissingRequired(cmdline)
          /\ ~AsksHelp(cmdline))

C3_Witness ==
  /\ pc = "exited" /\ entered = 1 /\ sends = 1
  /\ phase = "FAILED" /\ exitCode = 1

\* C3 as stated, on the command lines without --help / --version: a
\* finished run has executed exactly one handler and issued at most one send.
C3_Original ==
  (pc = "exited" /\ ~AsksHelp(cmdline)) => (entered = 1 /\ sends <= 1)

\* The phase changes a handler may make.  Every handler binds its client,
\* issues its one send and then succeeds or fails; uploadFile alone may
\* fail between the two, when reading the local file throws.
PhaseEdges ==
  {<<"NONE", "VALIDATED">>, <<"VALIDATED", "CLIENT_BOUND">>,
   <<"CLIENT_BOUND", "CALLING">>, <<"CALLING", "SUCCEEDED">>,
   <<"CALLING", "FAILED">>}

ReadFailure == <<"CLIENT_BOUND", "FAILED">>

\* What holds of a run in each phase.
PhaseFacts ==
  /\ phase = "VALIDATED" => client = Undefined /\ sends = 0
  /\ phase = "CLIENT_BOUND" => client # Undefined /\ sends = 0
  /\ phase = "CALLING" => client # Undefined /\ sends = 1 /\ pc # "exited"
  /\ phase = "SUCCEEDED" =>
       /\ sends = 1
       /\ stdout # <<>> /\ stdout[Len(stdout)] \in SuccessLines
       /\ stderr = <<>>
       /\ pc \in {"returned", "exited"} /\ exitCode = 0
  /\ phase = "FAILED" =>
       /\ stderr # <<>>
       /\ pc = "exited" /\ exitCode = 1
       /\ \A line \in SuccessLines : ~Printed(line)
  /\ (pc = "exited" /\ exitCode = 0) => stderr = <<>>
  /\ (pc = "exited" /\ exitCode = 1) => \A line \in SuccessLines : ~Printed(line)

\* C4 (as amended): a handler's phase changes only along VALIDATED ->
\* CLIENT_BOUND -> CALLING -> {SUCCEEDED, FAILED}, or, in upload-file only
\* and with no send issued, from CLIENT_BOUND to FAILED; a send is issued
\* only on entering CALLING, so never again after a failure; SUCCEEDED has
\* printed its result to standard output and ends with exit code 0; FAILED
\* has printed to standard error and exited with code 1; no run exits 0 after
\* a caught error or 1 after a success message.
C4_HandlerStateMachine ==
  [][ /\ phase' # phase =>
           \/ <<phase, phase'>> \in PhaseEdges
           \/ /\ <<phase, phase'>> = ReadFailure
              /\ handler = "upload-file" /\ sends' = 0
      /\ sends' # sends => (phase = "CLIENT_BOUND" /\ phase' = "CALLING")
      /\ phase' = "FAILED" => (sends' = 1 \/ handler' = "upload-file")
      /\ PhaseFacts' ]_vars

C4_Witness ==
  /\ handler = "upload-file" /\ phase = "FAILED" /\ sends = 0
  /\ pc = "exited" /\ exitCode = 1

\* C4 as stated: FAILED is entered from CALLING only, after the send.
C4_Original ==
  [][ /\ phase' # phase => <<phase, phase'>> \in PhaseEdges
      /\ sends' # sends => (phase = "CLIENT_BOUND" /\ phase' = "CALLING")
      /\ phase' = "FAILED" => sends' = 1
      /\ PhaseFacts' ]_vars

\* C5: when --env-file <path> is given, the credential variable the file
\* defines is resolved, at the send, to the value from that file.
C5_EnvFileWins ==
  (sends > 0 /\ world.envFileArg = "path" /\ world.envFile # Unset) =>
    credentials = world.envFile

\* C6: create-bucket binds its client to the requested region (us-east-1
\* when none is given) and sends the bucket name with no location constraint
\* for us-east-1 and with LocationConstraint = R for any other region R.
C6_CreateBucketLocation ==
  handler = "create-bucket" =>
    LET r == IF cmdline.region = Undefined THEN US_EAST_1 ELSE cmdline.region
    IN  /\ client # Undefined => client = r
        /\ sends > 0 =>
             /\ client = r
             /\ request.op = "CreateBucket"
             /\ request.Bucket = cmdline.name
             /\ r = US_EAST_1 => request.LocationConstraint = Undefined
             /\ r # US_EAST_1 => request.LocationConstraint = r

C6_Witness ==
  /\ handler = "create-bucket" /\ sends = 1
  /\ cmdline.region = EU_WEST_1
  /\ client = EU_WEST_1
  /\ request.LocationConstraint = EU_WEST_1

\* C7: get-bucket-region sends through a client bound to us-east-1 whatever
\* --region says, and on success reports us-east-1 for an empty, null or
\* missing location and the returned location otherwise.
C7_GetBucketRegionFixedClient ==
  handler = "get-bucket-region" =>
    /\ client \in {Undefined, US_EAST_1}
    /\ sends > 0 => (client = US_EAST_1 /\ request.Bucket = cmdline.name)
    /\ phase = "SUCCEEDED" =>
         report.region =
           IF response.LocationConstraint \in {Undefined, Null, EmptyString}
             THEN US_EAST_1
             ELSE response.LocationConstraint

C7_Witness ==
  /\ handler = "get-bucket-region" /\ phase = "SUCCEEDED"
  /\ cmdline.region = EU_WEST_1
  /\ client = US_EAST_1
  /\ response.LocationConstraint = EmptyString
  /\ report.region = US_EAST_1

\* The index of a unit in sizes, counted from 0 (9 for a unit not in it).
UnitIndex(u) ==
  IF \E i \in DOMAIN sizes : sizes[i] = u
    THEN (CHOOSE i \in DOMAIN sizes : sizes[i] = u) - 1
    ELSE Len(sizes)

\* C8: the size list-files prints for an object of b bytes is "0 Bytes" for
\* b = 0 and otherwise a number of at least 1 and below 1024 with a unit of
\* the list, which multiplied by the unit's power of 1024 gives b back to
\* within half a hundredth of the unit.
C8_FormatBytesBelow1024 ==
  (handler = "list-files" /\ phase = "SUCCEEDED" /\ response.count = 1) =>
    LET b == response.Size
        j == UnitIndex(report.unit)
    IN  IF b = 0
          THEN report.hundredths = 0 /\ report.unit = "Bytes"
          ELSE /\ j < Len(sizes)
               /\ report.hundredths >= 100
               /\ report.hundredths < 100 * k
               /\ 2 * report.hundredths * Pow(k, j) - 200 * b <= Pow(k, j)
               /\ 200 * b - 2 * report.hundredths * Pow(k, j) <= Pow(k, j)

\* A path component: the part of path after its last separator, trailing
\* separators not counted; empty only when path holds no component.
IsBasename(b, path) ==
  /\ \A i \in 1..Len(b) : b[i] # "/"
  /\ \E s \in 0..Len(path) : \E e \in s..Len(path) :
       /\ b = SubSeq(path, s + 1, e)
       /\ \A i \in (e + 1)..Len(path) : path[i] = "/"
       /\ s > 0 => path[s] = "/"
  /\ b = EmptyString => \A i \in 1..Len(path) : path[i] = "/"

\* C9 (as amended): upload-file sends as Key the --key value when one is
\* given and is not empty, and the base name of the --file path otherwise;
\* download-file writes to the --output value when one is given and is not
\* empty, and to the base name of the object key otherwise.
C9_NameDefaulting ==
  /\ (handler = "upload-file" /\ sends > 0) =>
       IF cmdline.key \notin {Undefined, EmptyString}
         THEN request.Key = cmdline.key
         ELSE IsBasename(request.Key, cmdline.file)
  /\ (handler = "download-file" /\ localFile # "untouched") =>
       IF cmdline.output \notin {Undefined, EmptyString}
         THEN outputPath = cmdline.output
         ELSE IsBasename(outputPath, cmdline.key)

C9_Witness ==
  /\ handler = "upload-file" /\ sends = 1
  /\ cmdline.key = Undefined
  /\ cmdline.file = <<"a", "/", "a">>
  /\ request.Key = <<"a">>

\* C9 as stated: a --key / --output that is given is used as it is.
C9_Original ==
  /\ (handler = "upload-file" /\ sends > 0) =>
       IF cmdline.key # Undefined
         THEN request.Key = cmdline.key
         ELSE IsBasename(request.Key, cmdline.file)
  /\ (handler = "download-file" /\ localFile # "untouched") =>
       IF cmdline.output # Undefined
         THEN outputPath = cmdline.output
         ELSE IsBasename(outputPath, cmdline.key)

\* C10: download-file touches the local output file only after the send
\* resolved with a body; a rejected send or a missing body ends in exit 1
\* with the file untouched; the success message and exit 0 come only with
\* the copy complete, and a copy that fails part-way ends in exit 1.
C10_DownloadFileOrdering ==
  handler = "download-file" =>
    /\ localFile # "untouched" =>
         (sends = 1 /\ response.ok /\ response.Body /\ outputPath # Undefined)
    /\ (pc = "exited" /\ sends = 1 /\ ~(response.ok /\ response.Body)) =>
         (exitCode = 1 /\ localFile = "untouched" /\ phase = "FAILED")
    /\ (Printed("File downloaded successfully") \/ phase = "SUCCEEDED"
          \/ (pc = "exited" /\ exitCode = 0)) =>
         localFile = "complete"
    /\ localFile = "open" => (pc = "piping" /\ phase = "CALLING")
    /\ localFile = "partial" =>
         (pc = "exited" /\ exitCode = 1 /\ phase = "FAILED")

C10_Witness ==
  /\ handler = "download-file" /\ pc = "exited" /\ exitCode = 1
  /\ response.ok /\ ~response.Body
  /\ localFile = "untouched"

====
